---- MODULE Spec2Model ----
(***************************************************************************)
(* Model of the document-chunking and multi-pass aggregation pipeline of   *)
(* QuestEngine (src/utils/question_answering.py) and of its callers.       *)
(*                                                                         *)
(* Texts that the code only tokenizes (documents, chunks) are sequences    *)
(* of tokens: the value of encoding.encode(text).  Texts that the code     *)
(* inspects character by character (gateway outputs, error strings, the    *)
(* parsed questions) are sequences of one-character strings.               *)
(***************************************************************************)
EXTENDS Integers, Sequences, FiniteSets, TLC

VARIABLES
    pc,             \* position of the task invocation
    task,           \* which entry point was invoked
    model,          \* the model handle passed in: "handle" or "None"
    document_text,  \* the document argument: [is_str, tokens]
    question,       \* generate_answer: the question argument (tokens)
    filename,       \* generate_answer: the filename argument, "None" if absent
    chunks,         \* chunk_text(document_text) in the multi-pass branch
    idx,            \* index of the chunk the for-loop is at
    responses,      \* the partial-results list
    calls,          \* every Model Gateway call issued by this invocation
    result,         \* the value returned by the entry point
    escaped,        \* an exception left the entry point
    invoked,        \* entry-point invocations started so far (saturating)
    model_status,   \* app: st.session_state.model_status
    gemini_model,   \* app: st.session_state.gemini_model
    uploaded_files, \* app: names of the files in st.session_state
    current_file,   \* app: st.session_state.current_file, "None" if unset
    chat_history,   \* app: per uploaded file, its list of messages
    ga_call,        \* app: the generate_answer call of the last question
    bookmarks,      \* HistoryManager: st.session_state.bookmarks
    bookmarks_file, \* HistoryManager: the list stored in bookmarks.json
    cText,          \* chunk_text alone: the text given to chunk_text
    cBudget,        \* chunk_text alone: max_tokens argument, <<>> if omitted
    cChunks,        \* chunk_text alone: the value chunk_text returned
    cDone,          \* chunk_text alone: chunk_text has returned
    pPath,          \* parsing alone: which return of generate_questions
    pText,          \* parsing alone: the model output to parse
    pOut,           \* parsing alone: the list the parsing produced
    pDone           \* parsing alone: the parsing has run

vars == <<pc, task, model, document_text, question, filename, chunks,
          idx, responses, calls, result, escaped, invoked, model_status,
          gemini_model, uploaded_files, current_file, chat_history, ga_call,
          bookmarks, bookmarks_file, cText, cBudget, cChunks, cDone, pPath, pText, pOut, pDone>>

pipeVars == <<pc, task, model, document_text, question, filename, chunks,
              idx, responses, calls, result, escaped, invoked>>

appVars == <<model_status, gemini_model, uploaded_files, current_file,
            chat_history, ga_call>>

bookVars == <<bookmarks, bookmarks_file>>

chunkVars == <<cText, cBudget, cChunks, cDone>>

parseVars == <<pPath, pText, pOut, pDone>>

(***************************************************************************)
(* Bounds of the model.                                                    *)
(***************************************************************************)
\* longest document (in tokens) given to a task entry point
MaxDocLen == 5

\* longest token sequence given to chunk_text on its own
MaxChunkInput == 5

\* largest explicit max_tokens given to chunk_text on its own
MaxBudget == 3

\* longest model output (in characters) enumerated for the question parsing
MaxOutputLen == 4

\* the count of invocations is kept up to this number
MaxInvocations == 2

\* most questions asked about one file in the app
MaxQuestions == 2

\* longest bookmark list
MaxBookmarks == 3

(***************************************************************************)
(* Config.MAX_TOKENS (30000 in the source), scaled down so that documents  *)
(* below, at and above the budget are enumerable.                          *)
(***************************************************************************)
MAX_TOKENS == 2

(***************************************************************************)
(* Characters, as Python's str.strip and the re module classify them.      *)
(***************************************************************************)
Digits == {"0","1","2","3","4","5","6","7","8","9"}

Letters ==
    {"a","b","c","d","e","f","g","h","i","j","k","l","m","n","o","p","q",
     "r","s","t","u","v","w","x","y","z","A","B","C","D","E","F","G","H",
     "I","J","K","L","M","N","O","P","Q","R","S","T","U","V","W","X","Y",
     "Z"}

\* \s and the characters str.strip() removes
IsSpace(c) == c \in {" ", "\t", "\n", "\r"}

\* \d
IsDigit(c) == c \in Digits

\* \w
IsWord(c) == c \in Digits \cup Letters \cup {"_"}

(***************************************************************************)
(* String helpers: str.strip, str.split('\n'), str.join.                   *)
(***************************************************************************)
RECURSIVE LStrip(_)
LStrip(s) ==
    IF s # <<>> /\ IsSpace(Head(s)) THEN LStrip(Tail(s)) ELSE s

RECURSIVE RStrip(_)
RStrip(s) ==
    IF s # <<>> /\ IsSpace(s[Len(s)])
    THEN RStrip(SubSeq(s, 1, Len(s) - 1))
    ELSE s

Strip(s) == RStrip(LStrip(s))

\* s.split('\n'): the pieces between newlines, empty pieces included
RECURSIVE SplitLines(_)
SplitLines(s) ==
    IF \E i \in 1..Len(s) : s[i] = "\n"
    THEN LET i == CHOOSE k \in 1..Len(s) :
                      s[k] = "\n" /\ \A j \in 1..(k - 1) : s[j] # "\n"
         IN <<SubSeq(s, 1, i - 1)>> \o SplitLines(SubSeq(s, i + 1, Len(s)))
    ELSE <<s>>

\* sep.join(parts)
RECURSIVE Join(_, _)
Join(sep, parts) ==
    IF parts = <<>> THEN <<>>
    ELSE IF Len(parts) = 1 THEN parts[1]
    ELSE parts[1] \o sep \o Join(sep, Tail(parts))

StartsWith(s, prefix) ==
    Len(s) >= Len(prefix) /\ SubSeq(s, 1, Len(prefix)) = prefix

\* re.search(r'\w', q)
HasWordChar(q) == \E i \in 1..Len(q) : IsWord(q[i])

\* number of leading characters of q that are digits
RECURSIVE LeadingDigits(_)
LeadingDigits(q) ==
    IF q # <<>> /\ IsDigit(Head(q)) THEN 1 + LeadingDigits(Tail(q)) ELSE 0

\* variant: enumeration prefixes are removed as long as there is one
RECURSIVE StripEnumPrefixAll(_)
StripEnumPrefixAll(q) ==
    LET n == LeadingDigits(q)
    IN IF n >= 1 /\ Len(q) >= n + 1 /\ q[n + 1] \in {".", ")"}
       THEN StripEnumPrefixAll(LStrip(SubSeq(q, n + 2, Len(q))))
       ELSE q

\* re.sub(r'^\d+[\.\)]\s*', '', q): one enumeration prefix removed at the
\* start of q when there is one, q unchanged otherwise
StripEnumPrefix(q) ==
    LET n == LeadingDigits(q)
    IN IF n >= 1 /\ Len(q) >= n + 1 /\ q[n + 1] \in {".", ")"}
       THEN LStrip(SubSeq(q, n + 2, Len(q)))
       ELSE q

\* the filter of the second comprehension: `if re.search(r'\w', q)`, applied
\* to the trimmed line before its prefix is removed
KeepLine(q) == HasWordChar(q)

\* the first comprehension: [q.strip() for q in questions_list if q.strip()]
RECURSIVE StripNonBlank(_)
StripNonBlank(lines) ==
    IF lines = <<>> THEN <<>>
    ELSE LET q == Strip(Head(lines))
         IN (IF q # <<>> THEN <<q>> ELSE <<>>) \o StripNonBlank(Tail(lines))

\* the second comprehension
RECURSIVE SubKept(_)
SubKept(lines) ==
    IF lines = <<>> THEN <<>>
    ELSE (IF KeepLine(Head(lines))
          THEN <<StripEnumPrefix(Head(lines))>>
          ELSE <<>>) \o SubKept(Tail(lines))

\* the parsing of generate_questions: text.strip().split('\n'), then the
\* two comprehensions
clean_questions(text) == SubKept(StripNonBlank(SplitLines(Strip(text))))

(***************************************************************************)
(* Tokenizer and chunker.                                                  *)
(***************************************************************************)
\* encoding.encode(text): a text is represented by its token sequence
encode(text) == text

\* count_tokens(text)
count_tokens(text) == Len(encode(text))

\* variant: the token that opens a new chunk is dropped
ChunkStepDropsToken(st, token, max_tokens) ==
    IF st.current_token_count + 1 > max_tokens
    THEN [chunks |-> Append(st.chunks, st.current_chunk),
          current_chunk |-> <<>>,
          current_token_count |-> 0]
    ELSE [chunks |-> st.chunks,
          current_chunk |-> Append(st.current_chunk, token),
          current_token_count |-> st.current_token_count + 1]

\* variant: the fill test is off by one (count > max_tokens)
ChunkStepOverfill(st, token, max_tokens) ==
    IF st.current_token_count > max_tokens
    THEN [chunks |-> Append(st.chunks, st.current_chunk),
          current_chunk |-> <<token>>,
          current_token_count |-> 1]
    ELSE [chunks |-> st.chunks,
          current_chunk |-> Append(st.current_chunk, token),
          current_token_count |-> st.current_token_count + 1]

\* variant: a chunk is appended only when it holds a token
ChunkStepSkipsEmpty(st, token, max_tokens) ==
    IF st.current_token_count + 1 > max_tokens
    THEN [chunks |-> IF st.current_chunk # <<>>
                     THEN Append(st.chunks, st.current_chunk)
                     ELSE st.chunks,
          current_chunk |-> <<token>>,
          current_token_count |-> 1]
    ELSE [chunks |-> st.chunks,
          current_chunk |-> Append(st.current_chunk, token),
          current_token_count |-> st.current_token_count + 1]

\* one iteration of the for-loop of chunk_text over `token`
ChunkStep(st, token, max_tokens) ==
    IF st.current_token_count + 1 > max_tokens
    THEN [chunks |-> Append(st.chunks, st.current_chunk),
          current_chunk |-> <<token>>,
          current_token_count |-> 1]
    ELSE [chunks |-> st.chunks,
          current_chunk |-> Append(st.current_chunk, token),
          current_token_count |-> st.current_token_count + 1]

RECURSIVE ChunkLoop(_, _, _)
ChunkLoop(st, tokens, max_tokens) ==
    IF tokens = <<>> THEN st
    ELSE ChunkLoop(ChunkStep(st, Head(tokens), max_tokens), Tail(tokens),
                   max_tokens)

\* variant: the chunk being filled when the loop ends is not appended
chunk_textNoFlush(text, max_tokens) ==
    ChunkLoop([chunks |-> <<>>, current_chunk |-> <<>>,
               current_token_count |-> 0],
              encode(text), max_tokens).chunks

\* variant: the chunk being filled is appended even when it is empty
chunk_textAlwaysFlush(text, max_tokens) ==
    LET st == ChunkLoop([chunks |-> <<>>, current_chunk |-> <<>>,
                         current_token_count |-> 0],
                        encode(text), max_tokens)
    IN Append(st.chunks, st.current_chunk)

\* chunk_text(text, max_tokens); a chunk is the token run it decodes
chunk_text(text, max_tokens) ==
    LET st == ChunkLoop([chunks |-> <<>>, current_chunk |-> <<>>,
                         current_token_count |-> 0],
                        encode(text), max_tokens)
    IN IF st.current_chunk # <<>>
       THEN Append(st.chunks, st.current_chunk)
       ELSE st.chunks

\* variant: chunks are cut at twice the single-pass budget
DefaultMaxTokensDoubled == MAX_TOKENS + MAX_TOKENS

\* the default of the max_tokens parameter
DefaultMaxTokens == MAX_TOKENS

(***************************************************************************)
(* Inputs of chunk_text and of the question parsing run on their own.     *)
(***************************************************************************)
SeqsUpTo(S, n) == UNION {[1..k -> S] : k \in 0..n}

\* token ids a text is made of
TokenIds == {1, 2}

\* the texts given to chunk_text on its own
ChunkInputs == SeqsUpTo(TokenIds, MaxChunkInput)

\* the max_tokens argument: <<>> when omitted, <<b>> when given
BudgetArgs == {<<>>} \cup {<<b>> : b \in (0 - 1)..MaxBudget}

\* the value of the max_tokens parameter inside chunk_text
EffectiveBudget(arg) == IF arg = <<>> THEN DefaultMaxTokens ELSE arg[1]

\* characters the enumerated model outputs are made of
OutputChars == {"1", ".", ")", " ", "\n", "A", "?"}

\* the model output of the parsing example
SpecExampleOutput ==
    <<"1","."," ","W","h","a","t"," ","i","s"," ","X","?","\n","2",")"," ",
      "H","o","w"," ","d","o","e","s"," ","Y"," ","w","o","r","k","?","\n",
      "\n","3","."," ">>

WhatIsX ==
    <<"W","h","a","t"," ","i","s"," ","X","?">>

HowDoesYWork ==
    <<"H","o","w"," ","d","o","e","s"," ","Y"," ","w","o","r","k","?">>

\* the model outputs given to the parsing on its own
ParseInputs == SeqsUpTo(OutputChars, MaxOutputLen) \cup {SpecExampleOutput}

(***************************************************************************)
(* Idle values of the three groups of variables.                           *)
(***************************************************************************)
NoResult == [type |-> "none", text |-> <<>>, items |-> <<>>]

NoDocument == [is_str |-> TRUE, tokens |-> <<>>]

\* the question of an entry point that has no question parameter
NoQuestion == <<>>

\* no invocation is running and none has left anything behind
NothingKept ==
    /\ pc = "idle"
    /\ task = "none"
    /\ model = "None"
    /\ document_text = NoDocument
    /\ question = NoQuestion
    /\ filename = "None"
    /\ chunks = <<>>
    /\ idx = 0
    /\ responses = <<>>
    /\ calls = <<>>
    /\ result = NoResult
    /\ escaped = FALSE

PipeIdle == NothingKept /\ invoked = 0

\* the generate_answer call of a question: none made
NoCall == [called |-> FALSE, handle |-> "None"]

\* init_session_state() of app.py
AppIdle ==
    /\ model_status = "not_initialized"
    /\ gemini_model = "None"
    /\ uploaded_files = {}
    /\ current_file = "None"
    /\ chat_history = [f \in {} |-> <<>>]
    /\ ga_call = NoCall

\* HistoryManager() when bookmarks.json does not exist yet
BookIdle ==
    /\ bookmarks = <<>>
    /\ bookmarks_file = <<>>

ChunkIdle ==
    /\ cText = <<>>
    /\ cBudget = <<>>
    /\ cChunks = <<>>
    /\ cDone = FALSE

ParseIdle ==
    /\ pPath = "none"
    /\ pText = <<>>
    /\ pOut = <<>>
    /\ pDone = FALSE

(***************************************************************************)
(* chunk_text on its own: the inputs are drawn in the initial state and    *)
(* the call applies the function.                                          *)
(***************************************************************************)
InitChunk ==
    /\ PipeIdle
    /\ AppIdle
    /\ BookIdle
    /\ ParseIdle
    /\ cText \in ChunkInputs
    /\ cBudget \in BudgetArgs
    /\ cChunks = <<>>
    /\ cDone = FALSE

ChunkCall ==
    /\ ~cDone
    /\ cChunks' = chunk_text(cText, EffectiveBudget(cBudget))
    /\ cDone' = TRUE
    /\ UNCHANGED <<cText, cBudget>>
    /\ UNCHANGED pipeVars
    /\ UNCHANGED appVars
    /\ UNCHANGED parseVars
    /\ UNCHANGED bookVars

NextChunk == ChunkCall

SpecChunk == InitChunk /\ [][NextChunk]_vars

(***************************************************************************)
(* The question parsing on its own.                                        *)
(***************************************************************************)
\* the four returns of generate_questions that parse a model output: the
\* reduction output and the single-pass output, each on the handle's path
\* and on the fallback path
ParsePaths ==
    {"reduce_primary", "reduce_fallback", "single_primary",
     "single_fallback"}

\* variant: the fallback copies of the parsing skip the prefix removal
ParseAtFallbackDiffers(path, text) ==
    IF path \in {"reduce_fallback", "single_fallback"}
    THEN StripNonBlank(SplitLines(Strip(text)))
    ELSE clean_questions(text)

\* the parsing at each of the four returns: the same four lines of code
ParseAt(path, text) == clean_questions(text)

InitParse ==
    /\ PipeIdle
    /\ AppIdle
    /\ BookIdle
    /\ ChunkIdle
    /\ pPath \in ParsePaths
    /\ pText \in ParseInputs
    /\ pOut = <<>>
    /\ pDone = FALSE

ParseCall ==
    /\ ~pDone
    /\ pOut' = ParseAt(pPath, pText)
    /\ pDone' = TRUE
    /\ UNCHANGED <<pPath, pText>>
    /\ UNCHANGED pipeVars
    /\ UNCHANGED appVars
    /\ UNCHANGED bookVars
    /\ UNCHANGED chunkVars

NextParse == ParseCall

SpecParse == InitParse /\ [][NextParse]_vars

(***************************************************************************)
(* The task entry points: their parameters and the calls of the            *)
(* repository that reach them.                                             *)
(***************************************************************************)
Tasks ==
    {"generate_answer", "summarize_document", "extract_key_points",
     "generate_questions"}

\* the parameters of each entry point, in order
Parameters(t) ==
    IF t = "generate_answer"
    THEN <<"model", "document_text", "question", "filename">>
    ELSE <<"model", "document_text">>

\* how many of them have no default
RequiredCount(t) == IF t = "generate_answer" THEN 3 ELSE 2

\* the argument shapes of the calls in app.py and chatbot.py
CallSites ==
    {[site |-> "app.ask_questions", task |-> "generate_answer",
      npos |-> 4, keywords |-> {}],
     [site |-> "app.summary", task |-> "summarize_document",
      npos |-> 2, keywords |-> {}],
     [site |-> "app.key_points", task |-> "extract_key_points",
      npos |-> 2, keywords |-> {}],
     [site |-> "app.questions", task |-> "generate_questions",
      npos |-> 2, keywords |-> {}],
     [site |-> "chatbot.show_chat_interface", task |-> "generate_answer",
      npos |-> 2, keywords |-> {"context"}]}

\* Python's binding of the arguments of a call to the parameters: every
\* keyword names a parameter not already bound by position, no positional
\* argument is left over, and every parameter without default is bound
BindsOk(cs) ==
    LET params == Parameters(cs.task)
        byPos  == {params[i] : i \in 1..(IF cs.npos < Len(params)
                                         THEN cs.npos ELSE Len(params))}
        names  == {params[i] : i \in 1..Len(params)}
    IN /\ cs.npos <= Len(params)
       /\ cs.keywords \subseteq (names \ byPos)
       /\ \A i \in 1..RequiredCount(cs.task) :
              params[i] \in byPos \cup cs.keywords

(***************************************************************************)
(* Inputs of an invocation and what the environment may answer.            *)
(***************************************************************************)
\* a document of n tokens; its tokens are pairwise distinct so that the
\* place of a chunk in the document can be read off the chunk
Doc(n) == [i \in 1..n |-> i]

\* document_text arguments: texts of 0..MaxDocLen tokens, and a value that
\* is not a str
Documents ==
    {[is_str |-> TRUE, tokens |-> Doc(n)] : n \in 0..MaxDocLen}
        \cup {[is_str |-> FALSE, tokens |-> <<>>]}

Handles == {"handle", "None"}

\* question arguments, as token sequences of different lengths
Questions == {<<7>>, <<8, 9>>}

\* filename arguments; "None" is the default of the parameter
Filenames == {"None", "a.txt"}

\* texts the generation backend may return
ModelTexts == {<<"1", ".", " ", "A", "?">>, <<"B">>}

\* str(e) of an exception raised by a library call
ExcMessages == {<<"q", "u", "o", "t", "a">>}

API_ERROR_PREFIX ==
    <<"A","P","I"," ","E","r","r","o","r",":"," ">>

NO_RESPONSE_SENTINEL ==
    <<"S","o","r","r","y",","," ","I"," ","c","o","u","l","d","n","'","t",
      " ","g","e","n","e","r","a","t","e"," ","a"," ","r","e","s","p","o",
      "n","s","e","."," ","P","l","e","a","s","e"," ","t","r","y"," ","a",
      "g","a","i","n",".">>

\* str(KeyError('content')): the first candidate has no 'content'
KEY_ERROR_CONTENT == <<"'", "c", "o", "n", "t", "e", "n", "t", "'">>

\* the exchange kinds in which a library call of the try block raises:
\* requests.post (network failure), response.raise_for_status (non-2xx
\* status), response.json (body that is not JSON)
TransportFailures == {"request_failed", "http_error", "bad_json"}

\* the exchange kinds with a 2xx JSON response that has no candidate to
\* read: no 'candidates' key, or an empty 'candidates' list
NoCandidateKinds == {"no_candidates_key", "empty_candidates"}

\* what the HTTP exchange of the fallback may come to: a first candidate
\* with text, a first candidate without 'content', a valid response
\* without candidates, or a failure raised by a library call
HttpOutcomes ==
    {[kind |-> "candidate", text |-> t] : t \in ModelTexts}
        \cup {[kind |-> "candidate_no_text", text |-> <<>>]}
        \cup {[kind |-> k, text |-> <<>>] : k \in NoCandidateKinds}
        \cup {[kind |-> k, text |-> m] :
                  k \in TransportFailures, m \in ExcMessages}

\* no HTTP exchange: the call went to the model handle
NoHttp == [kind |-> "none", text |-> <<>>]

\* the outcome of a call that has not returned yet
Pending == [k |-> "pending", v |-> <<>>]

Returned(text) == [k |-> "text", v |-> text]

Raised(msg) == [k |-> "raise", v |-> msg]

\* the try block of generate_answer_with_fallback, given what the HTTP
\* exchange came to: the value it returns or the exception it raises
FallbackBody(http) ==
    IF http.kind \in TransportFailures THEN Raised(http.text)
    ELSE IF http.kind \in NoCandidateKinds
    THEN Returned(NO_RESPONSE_SENTINEL)
    ELSE IF http.kind = "candidate_no_text" THEN Raised(KEY_ERROR_CONTENT)
    ELSE Returned(http.text)

\* variant: no except clause around the HTTP exchange
generate_answer_with_fallbackUncaught(http) == FallbackBody(http)

\* generate_answer_with_fallback(prompt), given what the HTTP exchange
\* came to: the except clause turns an exception into a str
generate_answer_with_fallback(http) ==
    LET r == FallbackBody(http)
    IN IF r.k = "raise" THEN Returned(API_ERROR_PREFIX \o r.v) ELSE r

\* variant: a failed exchange is tried a second time
HttpPostsRetry(http) ==
    IF http.kind = "none" THEN 0
    ELSE IF http.kind \in TransportFailures \cup NoCandidateKinds THEN 2
    ELSE 1

\* how many times requests.post is called for one gateway call: once in
\* generate_answer_with_fallback, never on the model handle's path
HttpPosts(http) == IF http.kind = "none" THEN 0 ELSE 1

\* model.generate_content(prompt) followed by response.text: the text, or
\* an exception
PrimaryOutcomes ==
    {Returned(t) : t \in ModelTexts} \cup {Raised(m) : m \in ExcMessages}

FallbackOutcomes == {generate_answer_with_fallback(h) : h \in HttpOutcomes}

(***************************************************************************)
(* The steps of an entry point.                                            *)
(***************************************************************************)
\* variant: the size check counts the question with the document
SizedTextWithQuestion(doc, q, fn) == doc \o q

\* the text whose tokens the size check counts: document_text, whatever
\* the question and the filename are
SizedText(doc, q, fn) == doc

\* variant: the size check with >= in place of >
NeedsSplitAtBudget(text) == count_tokens(text) >= MAX_TOKENS

\* `if count_tokens(document_text) > Config.MAX_TOKENS`
NeedsSplit(text) == count_tokens(text) > MAX_TOKENS

\* variant: the handle is used without the test
UsesHandleUnchecked(m) == TRUE

\* `if model:`
UsesHandle(m) == m # "None"

\* variant: the loop stops one chunk short
LoopDoneEarly(i, chs) == i >= Len(chs)

\* the for-loop over chunks has no chunk left at index i
LoopDone(i, chs) == i > Len(chs)

\* variant: responses.insert(0, ...)
CollectFront(partials, text) == <<text>> \o partials

\* responses.append(...)
Collect(partials, text) == Append(partials, text)

\* variant: an exception of a call is swallowed and the pass goes on
AbortsNever(o) == FALSE

\* variant: a returned error text ends the pass like an exception
AbortsOnErrorText(o) ==
    o.k = "raise" \/ StartsWith(o.v, API_ERROR_PREFIX)

\* what leaves the try block for the except clause: an exception, and
\* nothing else (no returned text is inspected)
Aborts(o) == o.k = "raise"

\* the separator of the join of the partial results
JoinSeparator(t) ==
    IF t = "generate_questions" THEN <<"\n">> ELSE <<"\n", "\n">>

\* the question and the file name as the f-string of a prompt shows them:
\* generate_answer puts the question in its three prompts and the file name
\* in the full-document and per-chunk prompts; no other task has either
PromptQuestion(t, at, q) == IF t = "generate_answer" THEN q ELSE NoQuestion

PromptFile(t, at, fn) ==
    IF t = "generate_answer" /\ at # "reduce" THEN fn ELSE ""

\* the prompt of the call made at position `at`
BuildPrompt(t, at, doc, chs, i, partials, q, fn) ==
    IF at = "single"
    THEN [template |-> <<t, "full">>, content |-> doc, combined |-> <<>>,
          question |-> PromptQuestion(t, at, q),
          filename |-> PromptFile(t, at, fn)]
    ELSE IF at = "map"
    THEN [template |-> <<t, "chunk">>, content |-> chs[i], combined |-> <<>>,
          question |-> PromptQuestion(t, at, q),
          filename |-> PromptFile(t, at, fn)]
    ELSE [template |-> <<t, "reduce">>, content |-> <<>>,
          combined |-> Join(JoinSeparator(t), partials),
          question |-> PromptQuestion(t, at, q),
          filename |-> PromptFile(t, at, fn)]

ERR_ANSWER ==
    <<"E","r","r","o","r"," ","g","e","n","e","r","a","t","i","n","g"," ",
      "a","n","s","w","e","r",":"," ">>

ERR_SUMMARY ==
    <<"E","r","r","o","r"," ","g","e","n","e","r","a","t","i","n","g"," ",
      "s","u","m","m","a","r","y",":"," ">>

ERR_KEY_POINTS ==
    <<"E","r","r","o","r"," ","e","x","t","r","a","c","t","i","n","g"," ",
      "k","e","y"," ","p","o","i","n","t","s",":"," ">>

ERR_QUESTIONS ==
    <<"E","r","r","o","r"," ","g","e","n","e","r","a","t","i","n","g"," ",
      "q","u","e","s","t","i","o","n","s",":"," ">>

ErrorPrefix(t) ==
    IF t = "generate_answer" THEN ERR_ANSWER
    ELSE IF t = "summarize_document" THEN ERR_SUMMARY
    ELSE IF t = "extract_key_points" THEN ERR_KEY_POINTS
    ELSE ERR_QUESTIONS

StrResult(text) == [type |-> "str", text |-> text, items |-> <<>>]

ListResult(items) == [type |-> "list", text |-> <<>>, items |-> items]

\* variant: the except clause of generate_questions returns the bare str
ErrorResultStr(t, msg) == StrResult(ErrorPrefix(t) \o msg)

\* the `except Exception as e` clause of each entry point
ErrorResult(t, msg) ==
    IF t = "generate_questions"
    THEN ListResult(<<ErrorPrefix(t) \o msg>>)
    ELSE StrResult(ErrorPrefix(t) \o msg)

\* the value returned for the text of the single-pass or reduction call
FinalResult(t, text) ==
    IF t = "generate_questions"
    THEN ListResult(clean_questions(text))
    ELSE StrResult(text)

\* variant: the partial-results list starts with a text left over from an
\* earlier invocation
LeftoverResponses == <<<<"B">>>>

\* `responses = []`: the partial-results list of a new invocation
NewResponses == <<>>

\* variant: calls are issued without waiting for the one before
NeverInFlight == FALSE

\* a Model Gateway call has been issued and has not returned
InFlight == calls # <<>> /\ calls[Len(calls)].out = Pending

InitPipe == PipeIdle /\ AppIdle /\ BookIdle /\ ChunkIdle /\ ParseIdle

\* a caller calls an entry point: argument binding, the size check and,
\* above the budget, the split
Invoke(cs, m, doc, msg, q, fn) ==
    /\ pc = "idle"
    /\ task' = cs.task
    /\ model' = m
    /\ document_text' = doc
    /\ question' = IF cs.task = "generate_answer" THEN q ELSE NoQuestion
    /\ filename' = IF cs.task = "generate_answer" THEN fn ELSE "None"
    /\ calls' = <<>>
    /\ responses' = NewResponses
    /\ invoked' = IF invoked < MaxInvocations THEN invoked + 1 ELSE invoked
    /\ IF ~BindsOk(cs)
       THEN /\ pc' = "raised"
            /\ escaped' = TRUE
            /\ result' = NoResult
            /\ chunks' = <<>>
            /\ idx' = 0
       ELSE IF ~doc.is_str
       THEN /\ pc' = "done"
            /\ escaped' = FALSE
            /\ result' = ErrorResult(cs.task, msg)
            /\ chunks' = <<>>
            /\ idx' = 0
       ELSE IF NeedsSplit(SizedText(doc.tokens, q, fn))
       THEN /\ chunks' = chunk_text(doc.tokens, DefaultMaxTokens)
            /\ idx' = 1
            /\ pc' = IF LoopDone(1, chunks') THEN "reduce" ELSE "map"
            /\ escaped' = FALSE
            /\ result' = NoResult
       ELSE /\ pc' = "single"
            /\ escaped' = FALSE
            /\ result' = NoResult
            /\ chunks' = <<>>
            /\ idx' = 0
    /\ UNCHANGED appVars
    /\ UNCHANGED chunkVars
    /\ UNCHANGED parseVars
    /\ UNCHANGED bookVars

\* the entry point builds the next prompt and hands it to the gateway
IssueCall ==
    /\ pc \in {"single", "map", "reduce"}
    /\ ~InFlight
    /\ calls' = Append(calls,
           [via |-> IF UsesHandle(model) THEN "primary" ELSE "fallback",
            at |-> pc,
            pos |-> IF pc = "map" THEN idx ELSE 0,
            prompt |-> BuildPrompt(task, pc, document_text.tokens, chunks,
                                   idx, responses, question, filename),
            http |-> "none",
            posts |-> 0,
            out |-> Pending])
    /\ UNCHANGED <<pc, task, model, document_text, question, filename,
                   chunks, idx, responses, result, escaped, invoked>>
    /\ UNCHANGED appVars
    /\ UNCHANGED chunkVars
    /\ UNCHANGED parseVars
    /\ UNCHANGED bookVars

\* the call in flight comes back with outcome o, and the entry point goes
\* on; http is the HTTP exchange behind o (NoHttp on the handle's path)
Respond(o, http) ==
    /\ InFlight
    /\ IF calls[Len(calls)].via = "primary"
       THEN http = NoHttp /\ o \in PrimaryOutcomes
       ELSE http \in HttpOutcomes /\ o = generate_answer_with_fallback(http)
    /\ calls' = [calls EXCEPT ![Len(calls)] =
                     [@ EXCEPT !.out = o,
                               !.http = http.kind,
                               !.posts = HttpPosts(http)]]
    /\ IF Aborts(o)
       THEN /\ result' = ErrorResult(task, o.v)
            /\ pc' = "done"
            /\ UNCHANGED <<responses, idx>>
       ELSE IF pc = "map"
       THEN /\ responses' = Collect(responses, o.v)
            /\ idx' = idx + 1
            /\ pc' = IF LoopDone(idx + 1, chunks) THEN "reduce" ELSE "map"
            /\ UNCHANGED result
       ELSE /\ result' = FinalResult(task, o.v)
            /\ pc' = "done"
            /\ UNCHANGED <<responses, idx>>
    /\ UNCHANGED <<task, model, document_text, question, filename, chunks,
                   escaped, invoked>>
    /\ UNCHANGED appVars
    /\ UNCHANGED chunkVars
    /\ UNCHANGED parseVars
    /\ UNCHANGED bookVars

\* the caller has the value (or the exception); nothing is kept
Return ==
    /\ pc \in {"done", "raised"}
    /\ pc' = "idle"
    /\ task' = "none"
    /\ model' = "None"
    /\ document_text' = NoDocument
    /\ question' = NoQuestion
    /\ filename' = "None"
    /\ chunks' = <<>>
    /\ idx' = 0
    /\ responses' = <<>>
    /\ calls' = <<>>
    /\ result' = NoResult
    /\ escaped' = FALSE
    /\ UNCHANGED invoked
    /\ UNCHANGED appVars
    /\ UNCHANGED chunkVars
    /\ UNCHANGED parseVars
    /\ UNCHANGED bookVars

Init == InitPipe

Next ==
    \/ \E cs \in CallSites, m \in Handles, doc \in Documents,
          msg \in ExcMessages, q \in Questions, fn \in Filenames :
              Invoke(cs, m, doc, msg, q, fn)
    \/ IssueCall
    \/ \E o \in PrimaryOutcomes : Respond(o, NoHttp)
    \/ \E http \in HttpOutcomes :
          Respond(generate_answer_with_fallback(http), http)
    \/ Return

Spec == Init /\ [][Next]_vars

(***************************************************************************)
(* The Streamlit app (src/app.py): model initialization, file upload and   *)
(* selection, and the Ask Questions tab.  One action is one script run.    *)
(***************************************************************************)
AppFiles == {"a.txt", "b.txt"}

\* raise Exception("API key issue - ...") of the Ask Questions tab
API_KEY_ISSUE ==
    <<"A","P","I"," ","k","e","y"," ","i","s","s","u","e"," ","-"," ","P",
      "l","e","a","s","e"," ","c","h","e","c","k"," ","y","o","u","r"," ",
      "G","o","o","g","l","e"," ","A","P","I"," ","k","e","y"," ","i","n",
      " ","t","h","e"," ",".","e","n","v"," ","f","i","l","e">>

API_KEY_INVALID ==
    <<"A","P","I","_","K","E","Y","_","I","N","V","A","L","I","D">>

API_KEY_EXPIRED ==
    <<"A","P","I"," ","k","e","y"," ","e","x","p","i","r","e","d">>

API_KEY_DISPLAY ==
    <<"A","P","I"," ","k","e","y"," ","e","x","p","i","r","e","d"," ","o",
      "r"," ","i","n","v","a","l","i","d","."," ","P","l","e","a","s","e",
      " ","u","p","d","a","t","e"," ","y","o","u","r"," ","A","P","I"," ",
      "k","e","y"," ","i","n"," ","t","h","e"," ",".","e","n","v"," ","f",
      "i","l","e",".">>

SORRY_PREFIX ==
    <<"S","o","r","r","y",","," ","I"," ","e","n","c","o","u","n","t","e",
      "r","e","d"," ","a","n"," ","e","r","r","o","r",":"," ">>

\* `sub in s` of Python for str
Contains(s, sub) ==
    \E i \in 1..(Len(s) - Len(sub) + 1) :
        SubSeq(s, i, i + Len(sub) - 1) = sub

\* what generate_answer hands back to the app: the str of a result
AppAnswers ==
    {FinalResult("generate_answer", t).text : t \in ModelTexts}
        \cup {ErrorResult("generate_answer", m).text : m \in ExcMessages}

UserMessage(q) == [role |-> "user", content |-> q]

AssistantMessage(text) == [role |-> "assistant", content |-> text]

\* error_display of the except clause, for str(e) = msg
ErrorDisplay(msg) ==
    IF Contains(msg, API_KEY_INVALID) \/ Contains(msg, API_KEY_EXPIRED)
    THEN API_KEY_DISPLAY
    ELSE ERR_ANSWER \o msg

\* variant: the except clause shows the error and appends nothing
OnExceptionSilent(history, msg) == history

\* the except clause of the Ask Questions tab appends the apology
OnException(history, msg) ==
    Append(history, AssistantMessage(SORRY_PREFIX \o ErrorDisplay(msg)))

\* `if st.session_state.model_status == "failed": raise Exception(...)`
RaisesBeforeCall(status) == status = "failed"

\* the script's first run: setup_gemini_model() returned h
InitializeModel(h) ==
    /\ model_status = "not_initialized"
    /\ gemini_model' = h
    /\ model_status' = IF h # "None" THEN "initialized" ELSE "failed"
    /\ UNCHANGED <<uploaded_files, current_file, chat_history, ga_call>>
    /\ UNCHANGED pipeVars
    /\ UNCHANGED chunkVars
    /\ UNCHANGED parseVars
    /\ UNCHANGED bookVars

\* a file not seen before is in the uploader; handle_file_upload returns
\* its info (ok) or raises
UploadFile(name, ok) ==
    /\ model_status # "not_initialized"
    /\ name \notin uploaded_files
    /\ IF ok
       THEN /\ uploaded_files' = uploaded_files \cup {name}
            /\ chat_history' =
                   [f \in DOMAIN chat_history \cup {name} |->
                       IF f = name THEN <<>> ELSE chat_history[f]]
       ELSE UNCHANGED <<uploaded_files, chat_history>>
    /\ UNCHANGED <<model_status, gemini_model, current_file, ga_call>>
    /\ UNCHANGED pipeVars
    /\ UNCHANGED chunkVars
    /\ UNCHANGED parseVars
    /\ UNCHANGED bookVars

\* the select box shows another uploaded file
SelectFile(name) ==
    /\ model_status # "not_initialized"
    /\ name \in uploaded_files
    /\ name # current_file
    /\ current_file' = name
    /\ UNCHANGED <<model_status, gemini_model, uploaded_files, chat_history,
                   ga_call>>
    /\ UNCHANGED pipeVars
    /\ UNCHANGED chunkVars
    /\ UNCHANGED parseVars
    /\ UNCHANGED bookVars

\* a question is submitted in the Ask Questions tab; answer is what
\* generate_answer returns if it is called
AskQuestion(q, answer) ==
    /\ model_status # "not_initialized"
    /\ current_file \in uploaded_files
    /\ Len(chat_history[current_file]) < 2 * MaxQuestions
    /\ LET asked == Append(chat_history[current_file], UserMessage(q))
       IN IF RaisesBeforeCall(model_status)
          THEN /\ chat_history' =
                      [chat_history EXCEPT
                           ![current_file] = OnException(asked, API_KEY_ISSUE)]
               /\ ga_call' = NoCall
          ELSE /\ chat_history' =
                      [chat_history EXCEPT
                           ![current_file] =
                               Append(asked, AssistantMessage(answer))]
               /\ ga_call' = [called |-> TRUE, handle |-> gemini_model]
    /\ UNCHANGED <<model_status, gemini_model, uploaded_files, current_file>>
    /\ UNCHANGED pipeVars
    /\ UNCHANGED chunkVars
    /\ UNCHANGED parseVars
    /\ UNCHANGED bookVars

InitApp == InitPipe

NextApp ==
    \/ \E h \in Handles : InitializeModel(h)
    \/ \E name \in AppFiles, ok \in BOOLEAN : UploadFile(name, ok)
    \/ \E name \in AppFiles : SelectFile(name)
    \/ \E q \in Questions, answer \in AppAnswers : AskQuestion(q, answer)

SpecApp == InitApp /\ [][NextApp]_vars

(***************************************************************************)
(* The bookmarks of HistoryManager (src/utils/history_manager.py).         *)
(***************************************************************************)
\* document_info arguments of save_bookmark
BookmarkDocs == {"a.txt", "b.txt"}

\* analysis_info arguments of save_bookmark
BookmarkAnalyses == {"summary", "questions"}

\* bookmark_id arguments of remove_bookmark
BookmarkIds == 0..MaxBookmarks

\* 'id': len(st.session_state.bookmarks)
NextId(list) == Len(list)

\* [b for b in list if b['id'] != bookmark_id]
WithoutId(list, bookmark_id) ==
    LET Keep(b) == b.id # bookmark_id
    IN SelectSeq(list, Keep)

\* HistoryManager.save_bookmark(document_info, analysis_info): append and
\* write the file
save_bookmark(document_info, analysis_info) ==
    /\ Len(bookmarks) < MaxBookmarks
    /\ bookmarks' = Append(bookmarks, [id |-> NextId(bookmarks),
                                       document |-> document_info,
                                       analysis |-> analysis_info])
    /\ bookmarks_file' = bookmarks'
    /\ UNCHANGED pipeVars
    /\ UNCHANGED appVars
    /\ UNCHANGED chunkVars
    /\ UNCHANGED parseVars

\* HistoryManager.remove_bookmark(bookmark_id): filter and write the file
remove_bookmark(bookmark_id) ==
    /\ bookmarks' = WithoutId(bookmarks, bookmark_id)
    /\ bookmarks_file' = bookmarks'
    /\ UNCHANGED pipeVars
    /\ UNCHANGED appVars
    /\ UNCHANGED chunkVars
    /\ UNCHANGED parseVars

\* HistoryManager.load_bookmarks(), run by every new HistoryManager()
load_bookmarks ==
    /\ bookmarks' = bookmarks_file
    /\ UNCHANGED bookmarks_file
    /\ UNCHANGED pipeVars
    /\ UNCHANGED appVars
    /\ UNCHANGED chunkVars
    /\ UNCHANGED parseVars

InitBookmarks == InitPipe

NextBookmarks ==
    \/ \E d \in BookmarkDocs, a \in BookmarkAnalyses : save_bookmark(d, a)
    \/ \E id \in BookmarkIds : remove_bookmark(id)
    \/ load_bookmarks

SpecBookmarks == InitBookmarks /\ [][NextBookmarks]_vars

(***************************************************************************)
(* Vocabulary of the properties.                                           *)
(***************************************************************************)
\* the body of an entry point has run, or is running
Entered == pc \in {"single", "map", "reduce", "done"}

\* the entry point has returned a value
Completed == pc = "done"

\* the document is a text within the single-pass budget
WithinBudget ==
    document_text.is_str /\ Len(document_text.tokens) <= MAX_TOKENS

\* the document is a text above the budget
AboveBudget ==
    document_text.is_str /\ Len(document_text.tokens) > MAX_TOKENS

\* no Model Gateway call of the invocation raised
NoCallRaised == \A i \in 1..Len(calls) : calls[i].out.k # "raise"

\* some exception was raised inside the try block
ExceptionInside ==
    ~document_text.is_str \/ \E i \in 1..Len(calls) : calls[i].out.k = "raise"

\* the value an entry point returns for the text of its last call
ResultFor(t, text) ==
    IF t = "generate_questions"
    THEN [type |-> "list", text |-> <<>>, items |-> clean_questions(text)]
    ELSE [type |-> "str", text |-> text, items |-> <<>>]

\* the i-th run of `budget` tokens of a token sequence
Slice(tokens, i, budget) ==
    SubSeq(tokens, (i - 1) * budget + 1,
           IF i * budget < Len(tokens) THEN i * budget ELSE Len(tokens))

\* the texts returned by the calls 1..n, in call order
ReturnedTexts(n) == [j \in 1..n |-> calls[j].out.v]

\* an error-description string of the gateway
IsErrorText(text) == StartsWith(text, API_ERROR_PREFIX)

RECURSIVE Flatten(_)
Flatten(seqs) ==
    IF seqs = <<>> THEN <<>> ELSE Head(seqs) \o Flatten(Tail(seqs))

(***************************************************************************)
(* C1  Single-pass shortcut.  For every task and every document of at most *)
(* MAX_TOKENS tokens (MAX_TOKENS itself included) the invocation issues    *)
(* exactly one Model Gateway call, which is the full-document call and not *)
(* a per-chunk or reduction call, and the value returned is the text of    *)
(* that call (for generate_questions, that text after line parsing).       *)
(***************************************************************************)
SinglePassShortcut ==
    (Entered /\ WithinBudget) =>
        /\ Len(calls) <= 1
        /\ \A i \in 1..Len(calls) : calls[i].at = "single"
        /\ Completed =>
              /\ Len(calls) = 1
              /\ calls[1].out.k = "text" =>
                     result = ResultFor(task, calls[1].out.v)

\* a generate_questions invocation on a document of exactly MAX_TOKENS
\* tokens has returned the parsed text of its only call
SinglePassShortcutWitness ==
    /\ Completed
    /\ task = "generate_questions"
    /\ Len(document_text.tokens) = MAX_TOKENS
    /\ Len(calls) = 1
    /\ calls[1].out.k = "text"
    /\ result.items # <<>>

(***************************************************************************)
(* C2  Multi-pass call count.  For every task and every document split     *)
(* into N chunks, an invocation that ran to its return statement (no call  *)
(* raised) has issued exactly N per-chunk calls followed by exactly one    *)
(* reduction call, N + 1 calls in all with the reduction last, and the     *)
(* value returned is the text of the reduction call (parsed into lines     *)
(* for generate_questions).                                                *)
(***************************************************************************)
MultiPassCallCount ==
    (Completed /\ AboveBudget /\ NoCallRaised) =>
        /\ Len(calls) = Len(chunks) + 1
        /\ \A i \in 1..Len(chunks) : calls[i].at = "map" /\ calls[i].pos = i
        /\ calls[Len(calls)].at = "reduce"
        /\ result = ResultFor(task, calls[Len(calls)].out.v)

\* an invocation over three chunks has returned after four calls
MultiPassCallCountWitness ==
    /\ Completed
    /\ AboveBudget
    /\ NoCallRaised
    /\ Len(chunks) = 3
    /\ Len(calls) = 4
    /\ calls[4].at = "reduce"

(***************************************************************************)
(* C3  Multi-pass ordering.  The i-th per-chunk call carries the i-th      *)
(* chunk of the document, and the partial-results section of the reduction *)
(* prompt is the texts returned by the per-chunk calls 1..N joined in that *)
(* order.                                                                  *)
(***************************************************************************)
MultiPassOrdering ==
    \A i \in 1..Len(calls) :
        /\ calls[i].at = "map" =>
              calls[i].prompt.content =
                  Slice(document_text.tokens, i, MAX_TOKENS)
        /\ calls[i].at = "reduce" =>
              calls[i].prompt.combined =
                  Join(JoinSeparator(task), ReturnedTexts(i - 1))

\* a reduction call has been issued over partial results that differ
MultiPassOrderingWitness ==
    /\ Len(calls) = 4
    /\ calls[4].at = "reduce"
    /\ calls[1].out.v # calls[2].out.v
    /\ calls[2].out.v # calls[3].out.v

(***************************************************************************)
(* C4  Degrade-not-abort.  In the multi-chunk branch, when the gateway     *)
(* returns an error string for chunk i, that text is the partial result at *)
(* position i, the pass goes on with the remaining chunks, and the         *)
(* invocation returns only after the reduction call, whose input holds the *)
(* error text at position i.                                               *)
(***************************************************************************)
DegradeNotAbort ==
    \A i \in 1..Len(calls) :
        (/\ calls[i].at = "map"
         /\ calls[i].via = "fallback"
         /\ calls[i].out.k = "text"
         /\ IsErrorText(calls[i].out.v)) =>
            /\ Len(responses) >= i
            /\ responses[i] = calls[i].out.v
            /\ pc \in {"map", "reduce", "done"}
            /\ pc = "map" => idx <= Len(chunks)
            /\ Completed =>
                  /\ Len(calls) = Len(chunks) + 1
                  /\ calls[Len(calls)].at = "reduce"
                  /\ calls[Len(calls)].prompt.combined =
                         Join(JoinSeparator(task),
                              [j \in 1..Len(chunks) |->
                                  IF j = i THEN calls[i].out.v
                                  ELSE responses[j]])

\* an invocation whose first chunk came back as an error string has
\* returned after the calls for the other chunks and the reduction call
DegradeNotAbortWitness ==
    /\ Completed
    /\ Len(chunks) = 3
    /\ Len(calls) = 4
    /\ calls[1].via = "fallback"
    /\ IsErrorText(calls[1].out.v)
    /\ ~IsErrorText(calls[2].out.v)

(***************************************************************************)
(* C5  Fallback on absent handle.  When the handle passed to an entry      *)
(* point is None, every Model Gateway call of the invocation (single-pass, *)
(* per-chunk, reduction) goes through generate_answer_with_fallback; none  *)
(* is made on the handle.                                                  *)
(***************************************************************************)
FallbackOnAbsentHandle ==
    (Entered /\ model = "None") =>
        \A i \in 1..Len(calls) : calls[i].via = "fallback"

\* an invocation without handle has made per-chunk calls and the
\* reduction call
FallbackOnAbsentHandleWitness ==
    /\ Completed
    /\ model = "None"
    /\ Len(calls) = 4
    /\ calls[4].at = "reduce"
    /\ calls[1].at = "map"

(***************************************************************************)
(* C6  Total-failure string shape.  For generate_answer,                   *)
(* summarize_document and extract_key_points no exception caused by the    *)
(* call escapes it, and a call during which an exception was raised        *)
(* returns a str that begins with the prefix of the task.                  *)
(***************************************************************************)
TotalFailureStringShape ==
    task \in {"generate_answer", "summarize_document", "extract_key_points"}
        => /\ ~escaped
           /\ pc # "raised"
           /\ (Completed /\ ExceptionInside) =>
                  /\ result.type = "str"
                  /\ StartsWith(result.text, ErrorPrefix(task))

(***************************************************************************)
(* C7  generate_questions always returns a list of strings; when an        *)
(* exception is raised in its size check, map, reduce or parsing, the list *)
(* has exactly one element, which begins with                              *)
(* 'Error generating questions: ', and no exception escapes.               *)
(***************************************************************************)
QuestionsAlwaysList ==
    task = "generate_questions" =>
        /\ ~escaped
        /\ pc # "raised"
        /\ Completed =>
              /\ result.type = "list"
              /\ ExceptionInside =>
                    /\ Len(result.items) = 1
                    /\ StartsWith(result.items[1], ERR_QUESTIONS)

\* generate_questions has returned after its reduction call raised
QuestionsAlwaysListWitness ==
    /\ Completed
    /\ task = "generate_questions"
    /\ Len(calls) = 4
    /\ calls[4].at = "reduce"
    /\ calls[4].out.k = "raise"
    /\ Len(result.items) = 1

(***************************************************************************)
(* C8  Question parsing drop rule.  The parsing returns no empty question: *)
(* a line that is blank, or that has no word character left once its       *)
(* enumeration prefix is removed, is dropped; the output                   *)
(* "1. What is X?\n2) How does Y work?\n\n3. " is parsed to                *)
(* ["What is X?", "How does Y work?"].                                     *)
(***************************************************************************)
ParsingDropRule ==
    pDone =>
        /\ \A i \in 1..Len(pOut) : pOut[i] # <<>> /\ HasWordChar(pOut[i])
        /\ pText = SpecExampleOutput => pOut = <<WhatIsX, HowDoesYWork>>

(***************************************************************************)
(* C9  Chunk round-trip.  For every text and every positive budget, the    *)
(* token runs of the chunks returned by chunk_text, concatenated in order, *)
(* are the token sequence of the text.                                     *)
(***************************************************************************)
ChunkRoundTrip ==
    (cDone /\ EffectiveBudget(cBudget) >= 1) =>
        Flatten(cChunks) = encode(cText)

\* a text of two different tokens was split into three chunks or more
ChunkRoundTripWitness ==
    /\ cDone
    /\ EffectiveBudget(cBudget) >= 1
    /\ Len(cChunks) >= 3
    /\ \E i, j \in 1..Len(cText) : cText[i] # cText[j]

(***************************************************************************)
(* C10  Chunk bound.  For every text and every positive budget B, each     *)
(* chunk returned by chunk_text holds at most B tokens; with the default   *)
(* budget no chunk holds more than MAX_TOKENS tokens, the constant of the  *)
(* split decision, so a text the split decision keeps whole is at most one *)
(* chunk.                                                                  *)
(***************************************************************************)
ChunkBound ==
    (cDone /\ EffectiveBudget(cBudget) >= 1) =>
        /\ \A i \in 1..Len(cChunks) :
               Len(cChunks[i]) <= EffectiveBudget(cBudget)
        /\ cBudget = <<>> =>
               /\ \A i \in 1..Len(cChunks) : Len(cChunks[i]) <= MAX_TOKENS
               /\ ~NeedsSplit(cText) => Len(cChunks) <= 1

\* chunk_text with the default budget returned a chunk of exactly
\* MAX_TOKENS tokens and another chunk after it
ChunkBoundWitness ==
    /\ cDone
    /\ cBudget = <<>>
    /\ Len(cChunks) >= 2
    /\ Len(cChunks[1]) = MAX_TOKENS


\* ceil(n / b) for b >= 1
CeilDiv(n, b) == (n + b - 1) \div b

(***************************************************************************)
(* C11  Chunk count.  For every text of n tokens and every positive budget *)
(* B, chunk_text returns exactly ceil(n / B) chunks, and every chunk but   *)
(* the last holds exactly B tokens.                                        *)
(***************************************************************************)
ChunkCount ==
    (cDone /\ EffectiveBudget(cBudget) >= 1) =>
        /\ Len(cChunks) = CeilDiv(Len(cText), EffectiveBudget(cBudget))
        /\ \A i \in 1..(Len(cChunks) - 1) :
               Len(cChunks[i]) = EffectiveBudget(cBudget)

\* a text whose length is no multiple of the budget was split into full
\* chunks and a shorter last one
ChunkCountWitness ==
    /\ cDone
    /\ cBudget = <<2>>
    /\ Len(cText) = 5
    /\ Len(cChunks) = 3
    /\ Len(cChunks[3]) = 1

(***************************************************************************)
(* C12  For every positive budget, chunk_text of the empty text is the     *)
(* empty sequence, and chunk_text of a non-empty text has no chunk of zero *)
(* tokens.                                                                 *)
(***************************************************************************)
NoEmptyChunk ==
    (cDone /\ EffectiveBudget(cBudget) >= 1) =>
        /\ cText = <<>> => cChunks = <<>>
        /\ cText # <<>> =>
               /\ cChunks # <<>>
               /\ \A i \in 1..Len(cChunks) : cChunks[i] # <<>>

\* chunk_text returned the empty sequence for the empty text
NoEmptyChunkWitness ==
    /\ cDone
    /\ cBudget = <<1>>
    /\ cText = <<>>
    /\ cChunks = <<>>


(***************************************************************************)
(* C20  The chunk guarantee for every integer max_tokens, zero and         *)
(* negative values included: no returned chunk is empty (the empty text    *)
(* gives the empty sequence) and no returned chunk holds more than         *)
(* max_tokens tokens.                                                      *)
(***************************************************************************)
ChunkGuaranteeAnyBudget ==
    cDone =>
        /\ cText = <<>> => cChunks = <<>>
        /\ \A i \in 1..Len(cChunks) :
               /\ cChunks[i] # <<>>
               /\ Len(cChunks[i]) <= EffectiveBudget(cBudget)

(***************************************************************************)
(* C20 as amended.  The guarantee holds for every positive max_tokens.     *)
(* For max_tokens <= 0 the empty text still gives the empty sequence, and  *)
(* a non-empty text of n tokens gives n + 1 chunks: an empty first chunk,  *)
(* then one chunk per token, each of one token (more than max_tokens).     *)
(***************************************************************************)
ChunkGuaranteeByBudgetSign ==
    cDone =>
        /\ cText = <<>> => cChunks = <<>>
        /\ EffectiveBudget(cBudget) >= 1 =>
               \A i \in 1..Len(cChunks) :
                   /\ cChunks[i] # <<>>
                   /\ Len(cChunks[i]) <= EffectiveBudget(cBudget)
        /\ (EffectiveBudget(cBudget) <= 0 /\ cText # <<>>) =>
               /\ Len(cChunks) = Len(cText) + 1
               /\ cChunks[1] = <<>>
               /\ \A i \in 2..Len(cChunks) : cChunks[i] = <<cText[i - 1]>>

\* chunk_text was given max_tokens = 0 and a text of several tokens
ChunkGuaranteeByBudgetSignWitness ==
    /\ cDone
    /\ cBudget = <<0>>
    /\ Len(cText) >= 2
    /\ Len(cChunks) = Len(cText) + 1


\* the call at place i of the log went through the HTTP fallback and has
\* come back
FallbackReturned(i) ==
    calls[i].via = "fallback" /\ calls[i].out # Pending

(***************************************************************************)
(* C13  Fallback gateway transport errors are data.  When the HTTP request *)
(* fails, the response is non-2xx, or the body is not JSON,                *)
(* generate_answer_with_fallback returns a string 'API Error: ...' and     *)
(* raises nothing to its caller.                                           *)
(***************************************************************************)
TransportErrorsAreData ==
    \A i \in 1..Len(calls) :
        FallbackReturned(i) =>
            /\ calls[i].out.k = "text"
            /\ calls[i].http \in TransportFailures =>
                   StartsWith(calls[i].out.v, API_ERROR_PREFIX)

\* one invocation met a network failure, a non-2xx status and a body that
\* is not JSON, each returned as an error string
TransportErrorsAreDataWitness ==
    /\ Len(calls) = 4
    /\ calls[1].http = "request_failed"
    /\ calls[2].http = "http_error"
    /\ calls[3].http = "bad_json"
    /\ \A i \in 1..3 : StartsWith(calls[i].out.v, API_ERROR_PREFIX)

(***************************************************************************)
(* C14  Fallback gateway empty result.  Whenever the HTTP response is      *)
(* valid but has no usable candidate (candidates missing, empty, or a      *)
(* first candidate without text), generate_answer_with_fallback returns    *)
(* the fixed sentinel string and not an error description.                 *)
(***************************************************************************)
EmptyResultIsSentinel ==
    \A i \in 1..Len(calls) :
        (/\ FallbackReturned(i)
         /\ calls[i].http \in NoCandidateKinds \cup {"candidate_no_text"}) =>
            calls[i].out = Returned(NO_RESPONSE_SENTINEL)

(***************************************************************************)
(* C15  The Model Gateway never throws on either transport: every          *)
(* per-chunk call that has come back yielded text, which is recorded as    *)
(* the partial result of its chunk, and the pass has not been ended by it. *)
(***************************************************************************)
GatewayNeverThrows ==
    \A i \in 1..Len(calls) :
        (calls[i].at = "map" /\ calls[i].out # Pending) =>
            /\ calls[i].out.k = "text"
            /\ Len(responses) >= i
            /\ responses[i] = calls[i].out.v
            /\ Completed => calls[Len(calls)].at = "reduce"

(***************************************************************************)
(* C16  Reduction barrier and sequential dispatch.  At most one Model      *)
(* Gateway call is in flight at any time; per-chunk call i + 1 is issued   *)
(* only after per-chunk call i has returned; the reduction call is issued  *)
(* only after all N per-chunk calls have returned.                         *)
(***************************************************************************)
SequentialDispatch ==
    \A i \in 1..Len(calls) :
        /\ i < Len(calls) => calls[i].out # Pending
        /\ calls[i].at = "map" =>
               /\ calls[i].pos = i
               /\ \A j \in 1..(i - 1) :
                      calls[j].at = "map" /\ calls[j].out.k = "text"
        /\ calls[i].at = "reduce" =>
               /\ i = Len(chunks) + 1
               /\ \A j \in 1..Len(chunks) :
                      calls[j].at = "map" /\ calls[j].out.k = "text"

\* the reduction call is in flight after three per-chunk calls returned
SequentialDispatchWitness ==
    /\ Len(chunks) = 3
    /\ Len(calls) = 4
    /\ calls[4].at = "reduce"
    /\ calls[4].out = Pending
    /\ \A j \in 1..3 : calls[j].out.k = "text"

(***************************************************************************)
(* C17  Reduction input separator.  For every task the reduction prompt is *)
(* built over the partial results joined in chunk order with a blank-line  *)
(* separator (two newlines between consecutive partial results).           *)
(***************************************************************************)
BlankLineSeparator ==
    \A i \in 1..Len(calls) :
        calls[i].at = "reduce" =>
            calls[i].prompt.combined =
                Join(<<"\n", "\n">>, ReturnedTexts(i - 1))

(***************************************************************************)
(* C19  No retries.  Each call of generate_answer_with_fallback issues     *)
(* exactly one HTTP request, whether the exchange gives a candidate, no    *)
(* candidate or a failure; a call on the model handle issues none.         *)
(***************************************************************************)
NoRetries ==
    \A i \in 1..Len(calls) :
        /\ FallbackReturned(i) => calls[i].posts = 1
        /\ calls[i].via = "primary" => calls[i].posts = 0

\* an invocation whose fallback calls met a failure, an empty candidate
\* list and a candidate has made one request for each
NoRetriesWitness ==
    /\ Len(calls) = 4
    /\ calls[1].http = "request_failed"
    /\ calls[2].http = "empty_candidates"
    /\ calls[3].http = "candidate"
    /\ \A i \in 1..3 : calls[i].posts = 1


(***************************************************************************)
(* The parsing as C18 words it, written over positions of the output.      *)
(***************************************************************************)
\* positions of the newlines of a text
NewlinesOf(text) == {i \in 1..Len(text) : text[i] = "\n"}

\* position of the j-th newline; 0 for j = 0, Len + 1 past the last one
NewlineAt(text, j) ==
    IF j = 0 THEN 0
    ELSE IF j > Cardinality(NewlinesOf(text)) THEN Len(text) + 1
    ELSE CHOOSE p \in NewlinesOf(text) :
             Cardinality({q \in NewlinesOf(text) : q < p}) = j - 1

\* the lines of a text, in order
LinesOf(text) ==
    [j \in 1..(Cardinality(NewlinesOf(text)) + 1) |->
        SubSeq(text, NewlineAt(text, j - 1) + 1, NewlineAt(text, j) - 1)]

\* a line without its surrounding whitespace
Trimmed(line) ==
    LET inked == {i \in 1..Len(line) : ~IsSpace(line[i])}
    IN IF inked = {} THEN <<>>
       ELSE SubSeq(line, CHOOSE a \in inked : \A b \in inked : a <= b,
                   CHOOSE a \in inked : \A b \in inked : a >= b)

\* q has a leading enumeration prefix whose marker ('.' or ')') is at m
PrefixEndsAt(q, m) ==
    /\ m \in 2..Len(q)
    /\ q[m] \in {".", ")"}
    /\ \A i \in 1..(m - 1) : IsDigit(q[i])

\* q without one leading enumeration prefix (digits, marker, whitespace);
\* q itself when it has none
OnePrefixRemoved(q) ==
    IF \E m \in 2..Len(q) : PrefixEndsAt(q, m)
    THEN LET m == CHOOSE k \in 2..Len(q) : PrefixEndsAt(q, k)
             rest == {i \in (m + 1)..Len(q) : ~IsSpace(q[i])}
         IN IF rest = {} THEN <<>>
            ELSE SubSeq(q, CHOOSE a \in rest : \A b \in rest : a <= b, Len(q))
    ELSE q

\* a line is kept when its trimmed form has a word character
IsKeptLine(line) == \E i \in 1..Len(line) : IsWord(line[i])

\* the kept lines in their original order, trimmed, one prefix removed
KeptLinesParsed(text) ==
    LET kept == SelectSeq(LinesOf(text), IsKeptLine)
    IN [i \in 1..Len(kept) |-> OnePrefixRemoved(Trimmed(kept[i]))]

(***************************************************************************)
(* C18  Question parsing keeps order and strips one prefix.  The list      *)
(* returned is the sequence of kept lines of the model output in their     *)
(* original order, each trimmed of surrounding whitespace and with exactly *)
(* one leading enumeration prefix (digits, then '.' or ')', then optional  *)
(* whitespace) removed when present, unchanged otherwise; the parsing is   *)
(* the same at the four returns (handle's path and fallback, single-pass   *)
(* output and reduction output).                                           *)
(***************************************************************************)
ParsingKeepsOrder ==
    pDone => pOut = KeptLinesParsed(pText)

\* on the fallback path of the reduction, a line with two enumeration
\* prefixes lost the first one only
ParsingKeepsOrderWitness ==
    /\ pDone
    /\ pPath = "reduce_fallback"
    /\ pText = <<"1", ".", "1", ")">>
    /\ pOut = <<<<"1", ")">>>>


(***************************************************************************)
(* The calls an invocation issues when no call raises, as a function of    *)
(* the document and the handle alone: transport, position and chunk index. *)
(***************************************************************************)
TransportOf(m) == IF m = "None" THEN "fallback" ELSE "primary"

ExpectedCalls(doc, m) ==
    IF Len(doc.tokens) <= MAX_TOKENS
    THEN <<[via |-> TransportOf(m), at |-> "single", pos |-> 0]>>
    ELSE [j \in 1..(CeilDiv(Len(doc.tokens), MAX_TOKENS) + 1) |->
             IF j <= CeilDiv(Len(doc.tokens), MAX_TOKENS)
             THEN [via |-> TransportOf(m), at |-> "map", pos |-> j]
             ELSE [via |-> TransportOf(m), at |-> "reduce", pos |-> 0]]

\* transport, position and chunk index of the calls issued so far
IssuedCalls ==
    [j \in 1..Len(calls) |->
        [via |-> calls[j].via, at |-> calls[j].at, pos |-> calls[j].pos]]

(***************************************************************************)
(* C21  Task parameters do not steer control flow.  For generate_answer on *)
(* a text document, as long as no call raised, the calls issued so far are *)
(* a prefix of a sequence fixed by the document and the handle kind alone  *)
(* (the whole sequence once a value is returned); so two invocations that  *)
(* differ only in question, filename and returned texts take the same      *)
(* branch and issue the same calls in the same order.  The question is in  *)
(* every prompt and the filename in the full-document and per-chunk        *)
(* prompts, and the document part of a prompt is free of both.             *)
(***************************************************************************)
ParametersDoNotSteer ==
    (task = "generate_answer" /\ Entered /\ document_text.is_str
        /\ NoCallRaised)
        => /\ Len(calls) <= Len(ExpectedCalls(document_text, model))
           /\ IssuedCalls =
                  SubSeq(ExpectedCalls(document_text, model), 1, Len(calls))
           /\ Completed =>
                  IssuedCalls = ExpectedCalls(document_text, model)
           /\ \A j \in 1..Len(calls) :
                  /\ calls[j].prompt.question = question
                  /\ calls[j].at # "reduce" =>
                         calls[j].prompt.filename = filename
                  /\ calls[j].at = "single" =>
                         calls[j].prompt.content = document_text.tokens
                  /\ calls[j].at = "map" =>
                         calls[j].prompt.content =
                             Slice(document_text.tokens, calls[j].pos,
                                   MAX_TOKENS)

\* a generate_answer invocation with the longer question and a file name
\* returned after the single full-document call on a one-token document
ParametersDoNotSteerWitness ==
    /\ task = "generate_answer"
    /\ Completed
    /\ NoCallRaised
    /\ question = <<8, 9>>
    /\ filename = "a.txt"
    /\ Len(document_text.tokens) = 1
    /\ Len(calls) = 1
    /\ calls[1].at = "single"
    /\ calls[1].prompt.question = <<8, 9>>


(***************************************************************************)
(* What an invocation's arguments and the gateway's answers to it fix.     *)
(***************************************************************************)
\* the prompt of call j, from the arguments and the texts returned to the
\* calls of this invocation before j
PromptFromArguments(j) ==
    BuildPrompt(task, calls[j].at, document_text.tokens,
                chunk_text(document_text.tokens, MAX_TOKENS), calls[j].pos,
                ReturnedTexts(j - 1), question, filename)

\* the value returned, from the task and the outcome of the last call
ResultFromLastCall ==
    LET last == calls[Len(calls)].out
    IN IF last.k = "raise" THEN ErrorResult(task, last.v)
       ELSE ResultFor(task, last.v)

\* the arguments of the running invocation
Arguments == <<task, model, document_text, question, filename>>

(***************************************************************************)
(* C22  Statelessness.  While an invocation runs, its document text, model *)
(* handle and other arguments do not change; once it has returned nothing  *)
(* of it is kept; and in any sequence of invocations every prompt issued   *)
(* and the value returned are fixed by the invocation's own arguments and  *)
(* the gateway's responses to its own calls.                               *)
(***************************************************************************)
Statelessness ==
    /\ [][(pc # "idle" /\ pc' # "idle") => Arguments' = Arguments]_vars
    /\ [](pc = "idle" => NothingKept)
    /\ [](\A j \in 1..Len(calls) : calls[j].prompt = PromptFromArguments(j))
    /\ []((Completed /\ calls # <<>>) => result = ResultFromLastCall)

\* a second invocation has returned the text of its reduction call, whose
\* prompt joins the two partial results of this invocation only
StatelessnessWitness ==
    /\ invoked = 2
    /\ Completed
    /\ NoCallRaised
    /\ Len(calls) = 3
    /\ calls[3].at = "reduce"
    /\ calls[3].prompt.combined =
           Join(JoinSeparator(task), <<calls[1].out.v, calls[2].out.v>>)
    /\ result = ResultFor(task, calls[3].out.v)


(***************************************************************************)
(* Vocabulary of the app properties.                                       *)
(***************************************************************************)
\* some question has been asked about some file
SomeQuestionAsked == \E f \in uploaded_files : chat_history[f] # <<>>

\* the assistant messages of the history of file f
AssistantMessages(f) ==
    {chat_history[f][i].content :
        i \in {k \in 1..Len(chat_history[f]) :
                  chat_history[f][k].role = "assistant"}}

(***************************************************************************)
(* C23  Fallback API mode in the app.  When model initialization yielded   *)
(* no handle (model_status = "failed"), a question asked about a document  *)
(* is answered by calling generate_answer with the absent handle, and the  *)
(* assistant message is what that call returned.                           *)
(***************************************************************************)
FallbackApiMode ==
    (model_status = "failed" /\ SomeQuestionAsked)
        => /\ ga_call = [called |-> TRUE, handle |-> "None"]
           /\ \A f \in uploaded_files : AssistantMessages(f) \subseteq AppAnswers


\* a history is a sequence of (user message, assistant message) pairs
IsPairs(history) ==
    /\ Len(history) % 2 = 0
    /\ \A i \in 1..Len(history) :
           history[i].role = IF i % 2 = 1 THEN "user" ELSE "assistant"

\* history `after` is history `before` with one user message and then one
\* assistant message appended
OnePairAppended(before, after) ==
    /\ Len(after) = Len(before) + 2
    /\ SubSeq(after, 1, Len(before)) = before
    /\ after[Len(before) + 1].role = "user"
    /\ after[Len(before) + 2].role = "assistant"

(***************************************************************************)
(* C27  Per-file chat history alternates.  After any sequence of questions *)
(* the history of every file is a sequence of (user message, assistant     *)
(* message) pairs, and a script run that changes the history of a file     *)
(* appends exactly one user message followed by exactly one assistant      *)
(* message, whether generate_answer returned an answer, returned an error  *)
(* text, or the tab raised instead of calling it.                          *)
(***************************************************************************)
HistoryAlternates ==
    /\ [](DOMAIN chat_history = uploaded_files)
    /\ [](\A f \in uploaded_files : IsPairs(chat_history[f]))
    /\ [][\A f \in uploaded_files :
              chat_history'[f] # chat_history[f]
                  => OnePairAppended(chat_history[f], chat_history'[f])]_vars

\* with no handle, two questions about the current file each got the
\* apology of the except clause as their assistant message
HistoryAlternatesWitness ==
    /\ model_status = "failed"
    /\ current_file = "a.txt"
    /\ Len(chat_history["a.txt"]) = 4
    /\ ga_call = NoCall
    /\ chat_history["a.txt"][4] =
           AssistantMessage(SORRY_PREFIX \o ERR_ANSWER \o API_KEY_ISSUE)


(***************************************************************************)
(* C24  The multi-pass branch has at least two chunks.  Whenever a task    *)
(* takes the multi-pass branch (document above MAX_TOKENS, chunked with    *)
(* the default budget) the chunk list has at least 2 chunks, the per-chunk *)
(* loop runs at least once, and a reduction call is issued over at least 2 *)
(* partial results.                                                        *)
(***************************************************************************)
MultiPassAtLeastTwoChunks ==
    /\ pc \in {"map", "reduce"} => Len(chunks) >= 2
    /\ pc = "reduce" => Len(responses) >= 2
    /\ \A j \in 1..Len(calls) :
           calls[j].at = "reduce"
               => /\ j >= 3
                  /\ Len(chunks) >= 2
                  /\ Len(responses) = Len(chunks)
                  /\ \A k \in 1..(j - 1) : calls[k].at = "map"

\* the shortest document above the budget: two chunks, two per-chunk
\* calls, and the reduction call issued over the two partial results
MultiPassAtLeastTwoChunksWitness ==
    /\ Len(document_text.tokens) = MAX_TOKENS + 1
    /\ Len(chunks) = 2
    /\ Len(calls) = 3
    /\ calls[3].at = "reduce"
    /\ Len(responses) = 2


AtLeastOneToken(text) == IF Len(text) = 0 THEN 0 ELSE 1

PromptTokensAtLeast(p) ==
    AtLeastOneToken(p.template) + Len(p.content) + Len(p.question)
        + AtLeastOneToken(p.combined)
        + (IF p.filename = "" THEN 0 ELSE 1)

(***************************************************************************)
(* C26  Every prompt handed to the Model Gateway (single-pass prompt, each *)
(* per-chunk prompt, the reduction prompt) has a token count of at most    *)
(* MAX_TOKENS.                                                             *)
(***************************************************************************)
PromptWithinBudget ==
    \A j \in 1..Len(calls) :
        PromptTokensAtLeast(calls[j].prompt) <= MAX_TOKENS


(***************************************************************************)
(* C28  Bookmark ids are unique.  After any sequence of save_bookmark and  *)
(* remove_bookmark calls no two bookmarks of the stored list share an id,  *)
(* so remove_bookmark(id) removes exactly one bookmark.                    *)
(***************************************************************************)
BookmarkIdsUnique ==
    /\ \A i, j \in 1..Len(bookmarks) :
           bookmarks[i].id = bookmarks[j].id => i = j
    /\ \A i, j \in 1..Len(bookmarks_file) :
           bookmarks_file[i].id = bookmarks_file[j].id => i = j

====
